---- MODULE Spec2Model ----
(***************************************************************************)
(* Model of json2jsonl.py: the shape-resolving parser parse_json_file, the *)
(* writer write_jsonl_file and the command main.                           *)
(*                                                                         *)
(* A text is a sequence of one-character strings.  A JSON value is a tree  *)
(* of nodes [t, s, c]: t is the kind ("obj", "arr", "str", "num", and "kv" *)
(* for one member of an object), s the characters of a scalar or of a key, *)
(* c the children.                                                         *)
(***************************************************************************)
EXTENDS Integers, Sequences, FiniteSets, TLC

\* ------------------------------------------------------------------------
\* Bounds of the model
\* ------------------------------------------------------------------------
MaxItems == 3
MaxRecs == 2

\* ------------------------------------------------------------------------
\* Characters
\* ------------------------------------------------------------------------
QUOTE == "\""
BSLASH == "\\"
NL == "\n"
SP == " "
Whitespace == {SP, NL}
Digits == {"1", "2"}

\* ------------------------------------------------------------------------
\* JSON values
\* ------------------------------------------------------------------------
Num(s) == [t |-> "num", s |-> s, c |-> <<>>]
Str(s) == [t |-> "str", s |-> s, c |-> <<>>]
Arr(c) == [t |-> "arr", s |-> <<>>, c |-> c]
Obj(c) == [t |-> "obj", s |-> <<>>, c |-> c]
KV(k, v) == [t |-> "kv", s |-> k, c |-> <<v>>]

IsDict(v) == v.t = "obj"
IsList(v) == v.t = "arr"

\* dict[key] = value: a repeated key keeps its place and takes the new value
RECURSIVE DictSet(_, _, _)
DictSet(members, k, v) ==
    IF members = <<>> THEN <<KV(k, v)>>
    ELSE IF Head(members).s = k THEN <<KV(k, v)>> \o Tail(members)
    ELSE <<Head(members)>> \o DictSet(Tail(members), k, v)

\* ------------------------------------------------------------------------
\* json.loads
\* ------------------------------------------------------------------------
Fail == [ok |-> FALSE, v |-> Num(<<>>), n |-> 0]
Ok(v, n) == [ok |-> TRUE, v |-> v, n |-> n]

RECURSIVE SkipWs(_, _)
SkipWs(s, i) ==
    IF i <= Len(s) /\ s[i] \in Whitespace THEN SkipWs(s, i + 1) ELSE i

Unescape(ch) == IF ch = "n" THEN NL ELSE ch

\* the body of a string literal, from the character after the opening quote
RECURSIVE ScanString(_, _, _)
ScanString(s, i, acc) ==
    IF i > Len(s) THEN Fail
    ELSE IF s[i] = QUOTE THEN Ok(Str(acc), i + 1)
    ELSE IF s[i] = BSLASH THEN
        IF i + 1 <= Len(s) /\ s[i + 1] \in {QUOTE, BSLASH, "n"}
        THEN ScanString(s, i + 2, Append(acc, Unescape(s[i + 1])))
        ELSE Fail
    ELSE IF s[i] = NL THEN Fail
    ELSE ScanString(s, i + 1, Append(acc, s[i]))

RECURSIVE ScanNumber(_, _, _)
ScanNumber(s, i, acc) ==
    IF i <= Len(s) /\ s[i] \in Digits
    THEN ScanNumber(s, i + 1, Append(acc, s[i]))
    ELSE Ok(Num(acc), i)

RECURSIVE ParseValue(_, _)
RECURSIVE ParseMembers(_, _, _)
RECURSIVE ParseElements(_, _, _)

ParseObject(s, j) ==
    IF j > Len(s) THEN Fail
    ELSE IF s[j] = "}" THEN Ok(Obj(<<>>), j + 1)
    ELSE ParseMembers(s, j, <<>>)

ParseArray(s, j) ==
    IF j > Len(s) THEN Fail
    ELSE IF s[j] = "]" THEN Ok(Arr(<<>>), j + 1)
    ELSE ParseElements(s, j, <<>>)

ParseValue(s, i) ==
    IF i > Len(s) THEN Fail
    ELSE IF s[i] = "{" THEN ParseObject(s, SkipWs(s, i + 1))
    ELSE IF s[i] = "[" THEN ParseArray(s, SkipWs(s, i + 1))
    ELSE IF s[i] = QUOTE THEN ScanString(s, i + 1, <<>>)
    ELSE IF s[i] \in Digits THEN ScanNumber(s, i, <<>>)
    ELSE Fail

ParseMembers(s, j, acc) ==
    IF j > Len(s) \/ s[j] # QUOTE THEN Fail
    ELSE LET key == ScanString(s, j + 1, <<>>) IN
      IF ~key.ok THEN Fail
      ELSE LET k == SkipWs(s, key.n) IN
        IF k > Len(s) \/ s[k] # ":" THEN Fail
        ELSE LET val == ParseValue(s, SkipWs(s, k + 1)) IN
          IF ~val.ok THEN Fail
          ELSE LET m == SkipWs(s, val.n)
                   acc2 == DictSet(acc, key.v.s, val.v) IN
            IF m > Len(s) THEN Fail
            ELSE IF s[m] = "}" THEN Ok(Obj(acc2), m + 1)
            ELSE IF s[m] = "," THEN ParseMembers(s, SkipWs(s, m + 1), acc2)
            ELSE Fail

ParseElements(s, j, acc) ==
    LET val == ParseValue(s, j) IN
      IF ~val.ok THEN Fail
      ELSE LET m == SkipWs(s, val.n)
               acc2 == Append(acc, val.v) IN
        IF m > Len(s) THEN Fail
        ELSE IF s[m] = "]" THEN Ok(Arr(acc2), m + 1)
        ELSE IF s[m] = "," THEN ParseElements(s, SkipWs(s, m + 1), acc2)
        ELSE Fail

\* json.loads(s): one JSON value surrounded by optional whitespace;
\* anything after it is "Extra data" (json.JSONDecodeError)
Loads(s) ==
    LET r == ParseValue(s, SkipWs(s, 1)) IN
      IF r.ok /\ SkipWs(s, r.n) > Len(s) THEN r ELSE Fail

\* ------------------------------------------------------------------------
\* json.dumps
\* ------------------------------------------------------------------------
None == <<>>
Some(n) == <<n>>

RECURSIVE Spaces(_)
Spaces(n) == IF n <= 0 THEN <<>> ELSE <<SP>> \o Spaces(n - 1)

\* Escape without the escaping of control characters
EscapeMut(ch) ==
    IF ch \in {QUOTE, BSLASH} THEN <<BSLASH, ch>> ELSE <<ch>>

Escape(ch) ==
    IF ch = NL THEN <<BSLASH, "n">>
    ELSE IF ch \in {QUOTE, BSLASH} THEN <<BSLASH, ch>>
    ELSE <<ch>>

RECURSIVE EscapeAll(_)
EscapeAll(s) == IF s = <<>> THEN <<>> ELSE Escape(Head(s)) \o EscapeAll(Tail(s))

DumpString(s) == <<QUOTE>> \o EscapeAll(s) \o <<QUOTE>>

\* '\n' + ' ' * (indent * level) when an indent is given, nothing otherwise
NewlineIndent(indent, level) ==
    IF indent = None THEN <<>> ELSE <<NL>> \o Spaces(indent[1] * level)

\* the separators json.dumps uses between items and after a key
ItemSep(seps, indent, level) == seps[1] \o NewlineIndent(indent, level)

RECURSIVE Encode(_, _, _, _)
RECURSIVE EncodeItems(_, _, _, _, _)

\* the members of an object or the elements of an array, one level down
EncodeItems(items, seps, indent, level, first) ==
    IF items = <<>> THEN <<>>
    ELSE (IF first THEN <<>> ELSE ItemSep(seps, indent, level))
         \o (IF Head(items).t = "kv"
             THEN DumpString(Head(items).s) \o seps[2]
                  \o Encode(Head(items).c[1], seps, indent, level)
             ELSE Encode(Head(items), seps, indent, level))
         \o EncodeItems(Tail(items), seps, indent, level, FALSE)

Encode(v, seps, indent, level) ==
    IF v.t \in {"obj", "arr"} THEN
        LET open == IF v.t = "obj" THEN "{" ELSE "["
            close == IF v.t = "obj" THEN "}" ELSE "]" IN
        IF v.c = <<>> THEN <<open, close>>
        ELSE <<open>> \o NewlineIndent(indent, level + 1)
             \o EncodeItems(v.c, seps, indent, level + 1, TRUE)
             \o NewlineIndent(indent, level)
             \o <<close>>
    ELSE IF v.t = "str" THEN DumpString(v.s)
    ELSE v.s

\* json.dumps(obj, ensure_ascii=False, separators=(',', ':'))
DumpsCompact(v) == Encode(v, << <<",">>, <<":">> >>, None, 0)

\* json.dumps(obj, ensure_ascii=False, indent=indent): the default separators
\* are (', ', ': ') without an indent and (',', ': ') with one
DumpsPretty(v, indent) ==
    Encode(v, IF indent = None THEN << <<",", SP>>, <<":", SP>> >>
                               ELSE << <<",">>, <<":", SP>> >>, indent, 0)

\* the json_str of write_jsonl_file
JsonStr(v, pretty, indent) ==
    IF pretty THEN DumpsPretty(v, indent) ELSE DumpsCompact(v)

\* ------------------------------------------------------------------------
\* str.strip and str.split('\n')
\* ------------------------------------------------------------------------
RECURSIVE LStrip(_)
LStrip(s) == IF s # <<>> /\ Head(s) \in Whitespace THEN LStrip(Tail(s)) ELSE s

RECURSIVE RStrip(_)
RStrip(s) ==
    IF s # <<>> /\ s[Len(s)] \in Whitespace
    THEN RStrip(SubSeq(s, 1, Len(s) - 1)) ELSE s

Strip(s) == RStrip(LStrip(s))

\* s.split('\n'): the text between newlines, ''.split('\n') being ['']
SplitLines(s) ==
    LET nl == {k \in 1..Len(s) : s[k] = NL}
        n == Cardinality(nl)
        \* the position of the j-th newline, 0 and Len(s) + 1 at the ends
        Pos(j) == IF j = 0 THEN 0
                  ELSE IF j = n + 1 THEN Len(s) + 1
                  ELSE CHOOSE k \in nl : Cardinality({m \in nl : m <= k}) = j
    IN [j \in 1..(n + 1) |-> SubSeq(s, Pos(j - 1) + 1, Pos(j) - 1)]

\* ------------------------------------------------------------------------
\* Input texts and record sequences of the model
\* ------------------------------------------------------------------------
OBJ_EMPTY == <<"{", "}">>
OBJ_A == <<"{", QUOTE, "a", QUOTE, ":", "1", "}">>
OBJ_NESTED == <<"{", QUOTE, "a", QUOTE, ":", NL, "{", "}", NL, "}">>
OBJ_BRACE == <<"{", QUOTE, "a", QUOTE, ":", QUOTE, "}", QUOTE, "}">>
OBJ_KEYBRACE == <<"{", QUOTE, "}", QUOTE, ":", "1", "}">>
ARR_OBJ == <<"[", "{", "}", "]">>
Items == {OBJ_EMPTY, OBJ_A, OBJ_NESTED, OBJ_BRACE, OBJ_KEYBRACE, ARR_OBJ,
          <<"1">>, <<"{">>, <<"}">>, <<>>}
Separators == {<<>>, <<NL>>}

RECURSIVE Join(_, _)
Join(parts, sep) ==
    IF parts = <<>> THEN <<>>
    ELSE IF Len(parts) = 1 THEN parts[1]
    ELSE parts[1] \o sep \o Join(Tail(parts), sep)

ItemSeqs == UNION {[1..n -> Items] : n \in 0..MaxItems}

\* the text of an input file: items joined by a separator, as they are or
\* between the brackets of an array
Build(ps, sp, br) ==
    IF br THEN <<"[">> \o Join(ps, sp) \o <<"]">> ELSE Join(ps, sp)

REC_EMPTY == Obj(<<>>)
REC_A == Obj(<<KV(<<"a">>, Num(<<"1">>))>>)
REC_NESTED == Obj(<<KV(<<"a">>, Obj(<<>>))>>)
REC_BRACE == Obj(<<KV(<<"a">>, Str(<<"}">>))>>)
REC_NL == Obj(<<KV(<<"a">>, Str(<<NL>>)), KV(<<QUOTE>>, Arr(<<Num(<<"2">>), Obj(<<>>)>>))>>)
Recs == {REC_EMPTY, REC_A, REC_NESTED, REC_BRACE, REC_NL}
RecordSeqs == UNION {[1..n -> Recs] : n \in 0..MaxRecs}

\* --indent is an int, 2 unless given
DefaultIndent == 2
IndentArgs == {0, DefaultIndent}

\* what the output path holds before the run
OldOutput == <<"o", "l", "d">>

\* ------------------------------------------------------------------------
\* State
\* ------------------------------------------------------------------------
VARIABLES
    pc,           \* position in main / parse_json_file / write_jsonl_file
    inputExists,  \* Path(args.input).exists()
    parts,        \* the items the input text is made of,
    sep,          \*   the separator between them,
    bracketed,    \*   and whether they stand between [ and ]
    raw,          \* the text of the input file
    content,      \* f.read().strip()
    objects,      \* the list the parser fills and the writer reads
    origin,       \* for each element of objects, the strategy that appended it
    strategy,     \* the strategy whose return statement ended the parse, 0 before
    lines,        \* content.split('\n')
    li,           \* index of the next line of the line-delimited pass
    i,            \* index (from 0) of the next character of the brace scan
    brace_count,
    start_pos,
    cands,        \* the <<start_pos, i>> of every obj_str given to json.loads
    pretty,
    indent,
    out,          \* the text at the output path
    outOpened,    \* whether open(output_path, 'w') has succeeded
    wi,           \* index of the next record to write
    written,      \* the records that were given to the writer
    exit,         \* exit status, -1 while running
    stderr        \* the error reported, "" when none

vars == <<pc, inputExists, parts, sep, bracketed, raw, content, objects, origin, strategy, lines, li,
          i, brace_count, start_pos, cands, pretty, indent, out, outOpened,
          wi, written, exit, stderr>>

parseVars == <<content, objects, origin, strategy, lines, li, i, brace_count,
               start_pos, cands>>
scanVars == <<i, brace_count, start_pos, cands>>
writeVars == <<pretty, indent, out, outOpened, wi, written>>
madeOf == <<parts, sep, bracketed>>
inputVars == <<inputExists, madeOf, raw>>

InitCommon ==
    /\ content = <<>>
    /\ origin = <<>>
    /\ strategy = 0
    /\ lines = <<>>
    /\ li = 1
    /\ i = 0
    /\ brace_count = 0
    /\ start_pos = 0
    /\ cands = <<>>
    /\ out = OldOutput
    /\ outOpened = FALSE
    /\ wi = 1
    /\ exit = -1
    /\ stderr = ""

\* the command is started on an input path that is missing or holds a text
Init ==
    /\ InitCommon
    /\ pc = "main"
    /\ \/ /\ inputExists = FALSE
          /\ parts = <<>> /\ sep = <<>> /\ bracketed = FALSE
       \/ /\ inputExists = TRUE
          /\ parts \in ItemSeqs
          /\ \/ sep \in Separators /\ bracketed = FALSE
             \/ sep = <<",">> /\ bracketed = TRUE
    /\ raw = Build(parts, sep, bracketed)
    /\ objects = <<>>
    /\ written = <<>>
    /\ pretty = FALSE
    /\ indent = None

\* write_jsonl_file is called on a record sequence with its formatting
\* options; parse_json_file then reads the file it wrote
InitLib ==
    /\ InitCommon
    /\ pc = "open"
    /\ inputExists = TRUE
    /\ parts = <<>> /\ sep = <<>> /\ bracketed = FALSE
    /\ raw = <<>>
    /\ objects \in RecordSeqs
    /\ written = objects
    /\ \/ pretty = FALSE /\ indent = None
       \/ pretty = TRUE /\ indent \in {None} \cup {Some(w) : w \in IndentArgs}

\* ------------------------------------------------------------------------
\* main, up to the call of the parser
\* ------------------------------------------------------------------------
Die(msg) ==
    /\ pc' = "done"
    /\ exit' = 1
    /\ stderr' = msg

InputMissing ==
    /\ pc = "main"
    /\ ~inputExists
    /\ Die("input missing")
    /\ UNCHANGED <<inputVars, parseVars, writeVars>>

\* CallParser opening the output path before the input is parsed
CallParserMut ==
    /\ pc = "main"
    /\ inputExists
    /\ pc' = "read"
    /\ out' = <<>>
    /\ outOpened' = TRUE
    /\ UNCHANGED <<inputVars, parseVars, pretty, indent, wi, written,
                   exit, stderr>>

CallParser ==
    /\ pc = "main"
    /\ inputExists
    /\ pc' = "read"
    /\ UNCHANGED <<inputVars, parseVars, writeVars, exit, stderr>>

\* ------------------------------------------------------------------------
\* parse_json_file
\* ------------------------------------------------------------------------
ReadFile ==
    /\ pc = "read"
    /\ content' = Strip(raw)
    /\ objects' = <<>>
    /\ origin' = <<>>
    /\ pc' = "s1"
    /\ UNCHANGED <<inputVars, strategy, lines, li, scanVars, writeVars,
                   exit, stderr>>

\* open() or read() raises: the file vanished or cannot be decoded
ReadFails ==
    /\ pc = "read"
    /\ Die("read error")
    /\ UNCHANGED <<inputVars, parseVars, writeVars>>

\* Strategy1 without its "return objects"
Strategy1Mut ==
    /\ pc = "s1"
    /\ LET r == Loads(content) IN
         IF r.ok /\ IsDict(r.v)
         THEN /\ objects' = Append(objects, r.v)
              /\ origin' = Append(origin, 1)
         ELSE UNCHANGED <<objects, origin>>
    /\ pc' = "s2"
    /\ UNCHANGED <<inputVars, content, strategy, lines, li, scanVars,
                   writeVars, exit, stderr>>

Strategy1 ==
    /\ pc = "s1"
    /\ LET r == Loads(content) IN
         IF r.ok /\ IsDict(r.v)
         THEN /\ objects' = Append(objects, r.v)
              /\ origin' = Append(origin, 1)
              /\ strategy' = 1
              /\ pc' = "ret"
         ELSE /\ pc' = "s2"
              /\ UNCHANGED <<objects, origin, strategy>>
    /\ UNCHANGED <<inputVars, content, lines, li, scanVars, writeVars,
                   exit, stderr>>

\* DictItems without the isinstance(item, dict) test
DictItemsMut(items) == items

RECURSIVE DictItems(_)
DictItems(items) ==
    IF items = <<>> THEN <<>>
    ELSE (IF IsDict(Head(items)) THEN <<Head(items)>> ELSE <<>>)
         \o DictItems(Tail(items))

Strategy2 ==
    /\ pc = "s2"
    /\ LET r == Loads(content) IN
         IF r.ok /\ IsList(r.v)
         THEN /\ objects' = objects \o DictItems(r.v.c)
              /\ origin' = origin \o [k \in 1..Len(DictItems(r.v.c)) |-> 2]
              /\ strategy' = 2
              /\ pc' = "ret"
              /\ UNCHANGED <<lines, li>>
         ELSE /\ pc' = "s3"
              /\ lines' = SplitLines(content)
              /\ li' = 1
              /\ UNCHANGED <<objects, origin, strategy>>
    /\ UNCHANGED <<inputVars, content, scanVars, writeVars, exit, stderr>>

\* Strategy3Line inserting at the front of the list
Strategy3LineFrontMut ==
    /\ pc = "s3"
    /\ li <= Len(lines)
    /\ LET line == Strip(lines[li])
           r == Loads(line) IN
         IF line # <<>> /\ r.ok /\ IsDict(r.v)
         THEN /\ objects' = <<r.v>> \o objects
              /\ origin' = Append(origin, 3)
         ELSE UNCHANGED <<objects, origin>>
    /\ li' = li + 1
    /\ UNCHANGED <<pc, inputVars, content, strategy, lines, scanVars,
                   writeVars, exit, stderr>>

\* Strategy3Line with "break" for "continue": a bad line ends the pass
Strategy3LineBreakMut ==
    /\ pc = "s3"
    /\ li <= Len(lines)
    /\ LET line == Strip(lines[li])
           r == Loads(line) IN
         IF line = <<>>
         THEN /\ li' = li + 1
              /\ UNCHANGED <<objects, origin>>
         ELSE IF r.ok
         THEN /\ li' = li + 1
              /\ IF IsDict(r.v)
                 THEN /\ objects' = Append(objects, r.v)
                      /\ origin' = Append(origin, 3)
                 ELSE UNCHANGED <<objects, origin>>
         ELSE /\ li' = Len(lines) + 1
              /\ UNCHANGED <<objects, origin>>
    /\ UNCHANGED <<pc, inputVars, content, strategy, lines, scanVars,
                   writeVars, exit, stderr>>

\* one iteration of "for line in lines"
Strategy3Line ==
    /\ pc = "s3"
    /\ li <= Len(lines)
    /\ LET line == Strip(lines[li])
           r == Loads(line) IN
         IF line # <<>> /\ r.ok /\ IsDict(r.v)
         THEN /\ objects' = Append(objects, r.v)
              /\ origin' = Append(origin, 3)
         ELSE UNCHANGED <<objects, origin>>
    /\ li' = li + 1
    /\ UNCHANGED <<pc, inputVars, content, strategy, lines, scanVars,
                   writeVars, exit, stderr>>

\* Strategy3End without "if objects: return objects"
Strategy3EndMut ==
    /\ pc = "s3"
    /\ li > Len(lines)
    /\ pc' = "s4"
    /\ i' = 0
    /\ brace_count' = 0
    /\ start_pos' = 0
    /\ cands' = <<>>
    /\ UNCHANGED <<inputVars, content, objects, origin, strategy, lines, li,
                   writeVars, exit, stderr>>

\* "if objects: return objects", else the brace scan starts
Strategy3End ==
    /\ pc = "s3"
    /\ li > Len(lines)
    /\ IF objects # <<>>
       THEN /\ strategy' = 3
            /\ pc' = "ret"
            /\ UNCHANGED scanVars
       ELSE /\ pc' = "s4"
            /\ i' = 0
            /\ brace_count' = 0
            /\ start_pos' = 0
            /\ cands' = <<>>
            /\ UNCHANGED strategy
    /\ UNCHANGED <<inputVars, content, objects, origin, lines, li, writeVars,
                   exit, stderr>>

\* content[a:b-1]: the slice without its last character
SliceMut(s, a, b) == SubSeq(s, a + 1, b - 1)

\* content[a:b], positions counted from 0, b exclusive
Slice(s, a, b) == SubSeq(s, a + 1, b)

\* ScanChar without "if brace_count == 0": every '{' moves start_pos
ScanCharMut ==
    /\ pc = "s4"
    /\ i < Len(content)
    /\ LET char == content[i + 1] IN
         IF char = "{"
         THEN /\ start_pos' = i
              /\ brace_count' = brace_count + 1
              /\ UNCHANGED <<objects, origin, cands>>
         ELSE IF char = "}"
         THEN /\ brace_count' = brace_count - 1
              /\ UNCHANGED start_pos
              /\ IF brace_count - 1 = 0
                 THEN LET r == Loads(Slice(content, start_pos, i + 1)) IN
                      /\ cands' = Append(cands, <<start_pos, i>>)
                      /\ IF r.ok /\ IsDict(r.v)
                         THEN /\ objects' = Append(objects, r.v)
                              /\ origin' = Append(origin, 4)
                         ELSE UNCHANGED <<objects, origin>>
                 ELSE UNCHANGED <<objects, origin, cands>>
         ELSE UNCHANGED <<objects, origin, brace_count, start_pos, cands>>
    /\ i' = i + 1
    /\ UNCHANGED <<pc, inputVars, content, strategy, lines, li, writeVars,
                   exit, stderr>>

\* one iteration of "for i, char in enumerate(content)"
ScanChar ==
    /\ pc = "s4"
    /\ i < Len(content)
    /\ LET char == content[i + 1] IN
         IF char = "{"
         THEN /\ start_pos' = IF brace_count = 0 THEN i ELSE start_pos
              /\ brace_count' = brace_count + 1
              /\ UNCHANGED <<objects, origin, cands>>
         ELSE IF char = "}"
         THEN /\ brace_count' = brace_count - 1
              /\ UNCHANGED start_pos
              /\ IF brace_count - 1 = 0
                 THEN LET r == Loads(Slice(content, start_pos, i + 1)) IN
                      /\ cands' = Append(cands, <<start_pos, i>>)
                      /\ IF r.ok /\ IsDict(r.v)
                         THEN /\ objects' = Append(objects, r.v)
                              /\ origin' = Append(origin, 4)
                         ELSE UNCHANGED <<objects, origin>>
                 ELSE UNCHANGED <<objects, origin, cands>>
         ELSE UNCHANGED <<objects, origin, brace_count, start_pos, cands>>
    /\ i' = i + 1
    /\ UNCHANGED <<pc, inputVars, content, strategy, lines, li, writeVars,
                   exit, stderr>>

\* the scan is over: "return objects"
ScanEnd ==
    /\ pc = "s4"
    /\ i >= Len(content)
    /\ strategy' = 4
    /\ pc' = "ret"
    /\ UNCHANGED <<inputVars, content, objects, origin, lines, li, scanVars,
                   writeVars, exit, stderr>>

\* ------------------------------------------------------------------------
\* main, after the parser
\* ------------------------------------------------------------------------
\* NoObjects without "if not objects: sys.exit(1)"
NoObjectsMut ==
    /\ pc = "ret"
    /\ objects = <<>>
    /\ pretty' = FALSE
    /\ indent' = None
    /\ written' = objects
    /\ pc' = "open"
    /\ UNCHANGED <<inputVars, parseVars, out, outOpened, wi, exit, stderr>>

NoObjects ==
    /\ pc = "ret"
    /\ objects = <<>>
    /\ Die("no objects")
    /\ UNCHANGED <<inputVars, parseVars, writeVars>>

\* write_jsonl_file(objects, args.output, args.pretty,
\*                  args.indent if args.pretty else None)
CallWriter ==
    /\ pc = "ret"
    /\ objects # <<>>
    /\ \E p \in BOOLEAN, w \in IndentArgs :
         /\ pretty' = p
         /\ indent' = IF p THEN Some(w) ELSE None
    /\ written' = objects
    /\ pc' = "open"
    /\ UNCHANGED <<inputVars, parseVars, out, outOpened, wi, exit, stderr>>

\* ------------------------------------------------------------------------
\* write_jsonl_file
\* ------------------------------------------------------------------------
OpenOutput ==
    /\ pc = "open"
    /\ out' = <<>>
    /\ outOpened' = TRUE
    /\ wi' = 1
    /\ pc' = "write"
    /\ UNCHANGED <<inputVars, parseVars, pretty, indent, written, exit, stderr>>

OpenFails ==
    /\ pc = "open"
    /\ Die("write error")
    /\ UNCHANGED <<inputVars, parseVars, writeVars>>

\* one iteration of "for obj in objects"
WriteRecord ==
    /\ pc = "write"
    /\ wi <= Len(objects)
    /\ out' = out \o JsonStr(objects[wi], pretty, indent) \o <<NL>>
    /\ wi' = wi + 1
    /\ UNCHANGED <<pc, inputVars, parseVars, pretty, indent, outOpened,
                   written, exit, stderr>>

WriteFails ==
    /\ pc = "write"
    /\ wi <= Len(objects)
    /\ Die("write error")
    /\ UNCHANGED <<inputVars, parseVars, writeVars>>

\* the loop is over and the file closed; nothing calls sys.exit
WriteEnd ==
    /\ pc = "write"
    /\ wi > Len(objects)
    /\ pc' = "done"
    /\ exit' = 0
    /\ UNCHANGED <<inputVars, parseVars, writeVars, stderr>>

\* parse_json_file is called on the path write_jsonl_file wrote
ReadBack ==
    /\ pc = "done"
    /\ exit = 0
    /\ strategy = 0
    /\ raw' = out
    /\ pc' = "read"
    /\ exit' = -1
    /\ UNCHANGED <<inputExists, madeOf, parseVars, writeVars, stderr>>

\* ------------------------------------------------------------------------
\* Specifications
\* ------------------------------------------------------------------------
Parse ==
    \/ ReadFile
    \/ ReadFails
    \/ Strategy1
    \/ Strategy2
    \/ Strategy3Line
    \/ Strategy3End
    \/ ScanChar
    \/ ScanEnd

Write ==
    \/ OpenOutput
    \/ OpenFails
    \/ WriteRecord
    \/ WriteFails
    \/ WriteEnd

\* one run of the command
Next ==
    \/ InputMissing
    \/ CallParser
    \/ Parse
    \/ NoObjects
    \/ CallWriter
    \/ Write

Spec == Init /\ [][Next]_vars

\* the writer, then the parser on what it wrote
NextLib ==
    \/ Write
    \/ ReadBack
    \/ Parse

SpecLib == InitLib /\ [][NextLib]_vars

\* ------------------------------------------------------------------------
\* Vocabulary of the properties
\* ------------------------------------------------------------------------
\* parse_json_file returns; objects is what it returns
Returned == pc = "ret"

ValidObject(t) == Loads(t).ok /\ IsDict(Loads(t).v)
AllObjects(ps) == \A k \in 1..Len(ps) : ValidObject(ps[k])
ValuesOf(ps) == [k \in 1..Len(ps) |-> Loads(ps[k]).v]
HasNewline(t) == \E k \in 1..Len(t) : t[k] = NL
HasBrace(t) == \E k \in 1..Len(t) : t[k] \in {"{", "}"}

\* no string of the value (and, with keysToo, no key) holds a brace
RECURSIVE BraceFree(_, _)
BraceFree(v, keysToo) ==
    /\ v.t = "str" => ~HasBrace(v.s)
    /\ (v.t = "kv" /\ keysToo) => ~HasBrace(v.s)
    /\ \A k \in 1..Len(v.c) : BraceFree(v.c[k], keysToo)

ParsesToDict(r) == r.ok /\ IsDict(r.v)

\* the mappings that the lines of a text parse to, in line order
LineDicts(text) ==
    LET ls == SplitLines(text)
        good == SelectSeq([k \in 1..Len(ls) |-> Loads(ls[k])], ParsesToDict)
    IN [k \in 1..Len(good) |-> good[k].v]

\* the text write_jsonl_file writes for a whole record sequence
RECURSIVE Serialized(_, _, _)
Serialized(objs, p, ind) ==
    IF objs = <<>> THEN <<>>
    ELSE JsonStr(Head(objs), p, ind) \o <<NL>> \o Serialized(Tail(objs), p, ind)

\* ------------------------------------------------------------------------
\* C1
\* ------------------------------------------------------------------------
NewlineSeparatedObjects ==
    /\ Len(parts) >= 1
    /\ AllObjects(parts)
    /\ sep = <<NL>>
    /\ ~bracketed

\* C1 as stated: a text of N >= 1 valid JSON object texts of any internal
\* layout, separated by newlines, is parsed to exactly those N objects in
\* file order.
C1_Original ==
    (Returned /\ NewlineSeparatedObjects) => objects = ValuesOf(parts)

\* C1 amended: a text of N >= 1 valid JSON object texts, none of which
\* contains a newline, separated by newlines, is parsed to exactly those N
\* objects in file order.
C1_OnePerLine ==
    (Returned /\ NewlineSeparatedObjects
       /\ \A k \in 1..Len(parts) : ~HasNewline(parts[k]))
    => objects = ValuesOf(parts)

C1_Witness ==
    /\ Returned
    /\ parts = <<OBJ_A, OBJ_EMPTY, OBJ_BRACE>>
    /\ sep = <<NL>>
    /\ ~bracketed
    /\ strategy = 3
    /\ objects = <<REC_A, REC_EMPTY, REC_BRACE>>

\* ------------------------------------------------------------------------
\* C2
\* ------------------------------------------------------------------------
ConcatenatedObjects ==
    /\ Len(parts) >= 2
    /\ AllObjects(parts)
    /\ sep = <<>>
    /\ ~bracketed

\* C2 as stated: a text of N >= 2 valid JSON object texts concatenated with
\* no separator, no string value of which contains a brace, is parsed to
\* exactly those N objects in left-to-right order, by Strategy 4.
C2_Original ==
    (Returned /\ ConcatenatedObjects
       /\ \A k \in 1..Len(parts) : BraceFree(Loads(parts[k]).v, FALSE))
    => (objects = ValuesOf(parts) /\ strategy = 4)

\* C2 amended: a text of N >= 2 valid JSON object texts concatenated with
\* no separator, where no string (key or value) contains a brace and no
\* object text contains a newline, is parsed to exactly those N objects in
\* left-to-right order, by Strategy 4.
C2_ConcatenatedOneLine ==
    (Returned /\ ConcatenatedObjects
       /\ \A k \in 1..Len(parts) :
            BraceFree(Loads(parts[k]).v, TRUE) /\ ~HasNewline(parts[k]))
    => (objects = ValuesOf(parts) /\ strategy = 4)

C2_Witness ==
    /\ Returned
    /\ parts = <<OBJ_A, OBJ_EMPTY, OBJ_A>>
    /\ sep = <<>>
    /\ ~bracketed
    /\ strategy = 4
    /\ cands = << <<0, 6>>, <<7, 8>>, <<9, 15>> >>
    /\ objects = <<REC_A, REC_EMPTY, REC_A>>

\* ------------------------------------------------------------------------
\* C3
\* ------------------------------------------------------------------------
\* C3: whatever the formatting option, the file written has one physical
\* line per record, and each line is by itself a JSON document equal to the
\* corresponding record.
C3_OneLinePerRecord ==
    (pc = "done" /\ exit = 0) =>
        LET ls == SplitLines(out) IN
        /\ Len(ls) = Len(written) + 1
        /\ ls[Len(ls)] = <<>>
        /\ \A k \in 1..Len(written) :
             Loads(ls[k]).ok /\ Loads(ls[k]).v = written[k]

\* ------------------------------------------------------------------------
\* C4
\* ------------------------------------------------------------------------
\* C4: a record sequence of any length written in compact mode and parsed
\* back from the written file is returned equal: same length, same order,
\* same records.
C4_RoundTrip ==
    (Returned /\ ~pretty) => objects = written

C4_Witness ==
    /\ Returned
    /\ ~pretty
    /\ written = <<REC_NL, REC_BRACE>>
    /\ strategy = 3
    /\ objects = written

\* ------------------------------------------------------------------------
\* C5
\* ------------------------------------------------------------------------
\* C5: a strategy that yields no record is followed by the next one, so
\* the parser returns an empty sequence only from Strategy 4, after all
\* four strategies were attempted.
C5_EmptyOnlyAfterAll ==
    (Returned /\ objects = <<>>) => strategy = 4

\* ------------------------------------------------------------------------
\* C6
\* ------------------------------------------------------------------------
\* C6: a text that parses as a whole as a JSON array is parsed to exactly
\* the elements of the array that are mappings, in their order; the other
\* elements are skipped.
C6_ArrayMappings ==
    (Returned /\ Loads(raw).ok /\ IsList(Loads(raw).v))
    => /\ objects = SelectSeq(Loads(raw).v.c, IsDict)
       /\ (bracketed /\ \A k \in 1..Len(parts) : Loads(parts[k]).ok)
            => objects = SelectSeq(ValuesOf(parts), IsDict)

C6_Witness ==
    /\ Returned
    /\ bracketed
    /\ parts = <<OBJ_A, <<"1">>, OBJ_EMPTY>>
    /\ strategy = 2
    /\ objects = <<REC_A, REC_EMPTY>>

\* ------------------------------------------------------------------------
\* C7
\* ------------------------------------------------------------------------
\* C7: a text that is, once trimmed, one valid JSON object is parsed to
\* exactly that one record by Strategy 1, and Strategies 2, 3 and 4 are
\* never entered.
C7_SingleObject ==
    (pc \in {"s2", "s3", "s4", "ret"} /\ ValidObject(Strip(raw))) =>
        /\ Returned
        /\ strategy = 1
        /\ objects = <<Loads(Strip(raw)).v>>
        /\ lines = <<>> /\ li = 1 /\ i = 0 /\ cands = <<>>

C7_Witness ==
    /\ Returned
    /\ parts = <<<<>>, OBJ_NESTED, <<>>>>
    /\ sep = <<NL>>
    /\ ~bracketed
    /\ strategy = 1
    /\ objects = <<REC_NESTED>>

\* ------------------------------------------------------------------------
\* C8
\* ------------------------------------------------------------------------
\* C8: when the whole text is not one JSON value and some line parses to a
\* mapping, the parser returns exactly the mappings of the lines that parse
\* to one, in line order; the other lines are skipped.
C8_BadLinesSkipped ==
    (Returned /\ ~Loads(raw).ok /\ LineDicts(raw) # <<>>)
    => (objects = LineDicts(raw) /\ strategy = 3)

C8_Witness ==
    /\ Returned
    /\ parts = <<OBJ_A, <<"}">>, OBJ_EMPTY>>
    /\ sep = <<NL>>
    /\ ~bracketed
    /\ strategy = 3
    /\ objects = <<REC_A, REC_EMPTY>>

\* ------------------------------------------------------------------------
\* C9
\* ------------------------------------------------------------------------
\* C9: the command ends with status 0 exactly when at least one record was
\* recovered and every record was written to the output; with a missing
\* input, an input without records (empty and blank ones included) or a
\* failed open or write of the output the status is not 0.
C9_ExitStatus ==
    pc = "done" =>
        /\ exit \in {0, 1}
        /\ exit = 0 <=> /\ objects # <<>>
                        /\ outOpened
                        /\ wi = Len(objects) + 1
                        /\ out = Serialized(objects, pretty, indent)
        /\ (~inputExists \/ Strip(raw) = <<>> \/ objects = <<>>
              \/ stderr # "") => exit = 1

C9_Witness ==
    /\ pc = "done"
    /\ exit = 0
    /\ Len(objects) = 2
    /\ out = Serialized(objects, pretty, indent)

\* ------------------------------------------------------------------------
\* C10
\* ------------------------------------------------------------------------
\* C10: the brace scan of Strategy 4 runs only on an empty record list, and
\* the records the parser holds and returns were all appended by one
\* strategy, the one that returns them.
C10_OneStrategy ==
    /\ Len(origin) = Len(objects)
    /\ \A j, k \in 1..Len(origin) : origin[j] = origin[k]
    /\ pc = "s4" => \A k \in 1..Len(origin) : origin[k] = 4
    /\ Returned => \A k \in 1..Len(origin) : origin[k] = strategy

C10_Witness ==
    /\ Returned
    /\ strategy = 4
    /\ Len(lines) >= 2
    /\ origin = <<4, 4>>

\* ------------------------------------------------------------------------
\* C11
\* ------------------------------------------------------------------------
\* the braces opened minus the braces closed in the first n characters
Depth(text, n) ==
    Cardinality({k \in 1..n : text[k] = "{"})
    - Cardinality({k \in 1..n : text[k] = "}"})

\* the records that the candidates parse to, in the order of the candidates
CandidateDicts(text, cs) ==
    LET good == SelectSeq([k \in 1..Len(cs) |->
                              Loads(SubSeq(text, cs[k][1] + 1, cs[k][2] + 1))],
                          ParsesToDict)
    IN [k \in 1..Len(good) |-> good[k].v]

\* C11: during the brace scan of any text, stray and unmatched braces
\* included, every candidate given to the JSON parser begins at a '{' read
\* at depth zero, ends at the '}' that brings the depth back to zero, and
\* has balanced braces; the candidates come in increasing position order
\* without overlap, and the records appended are theirs, left to right.
C11_Candidates ==
    (pc = "s4" \/ (Returned /\ strategy = 4)) =>
        /\ brace_count = Depth(content, i)
        /\ \A k \in 1..Len(cands) :
             LET a == cands[k][1]
                 b == cands[k][2] IN
             /\ 0 <= a /\ a < b /\ b < i
             /\ content[a + 1] = "{"
             /\ content[b + 1] = "}"
             /\ Depth(content, a) = 0
             /\ Depth(content, b + 1) = 0
             /\ \A m \in (a + 1)..b : Depth(content, m) > 0
        /\ \A k \in 1..(Len(cands) - 1) : cands[k][2] < cands[k + 1][1]
        /\ objects = CandidateDicts(content, cands)

C11_Witness ==
    /\ Returned
    /\ strategy = 4
    /\ parts = <<<<"}">>, <<"{">>, OBJ_A>>
    /\ sep = <<>>
    /\ ~bracketed
    /\ brace_count = 0
    /\ cands = << <<2, 8>> >>
    /\ objects = <<REC_A>>

\* ------------------------------------------------------------------------
\* C12
\* ------------------------------------------------------------------------
\* C12: the output path is opened only once a non-empty record sequence
\* has been obtained; with a missing input or no record recovered the
\* command ends without opening it, and what it held is unchanged.
C12_OutputUntouched ==
    /\ (outOpened \/ out # OldOutput) =>
          (inputExists /\ objects # <<>> /\ pc \in {"write", "done"})
    /\ (pc = "done" /\ (~inputExists \/ objects = <<>>)) =>
          (~outOpened /\ out = OldOutput /\ exit = 1)

C12_Witness ==
    /\ pc = "done"
    /\ inputExists
    /\ strategy = 4
    /\ parts = <<<<"{">>, OBJ_EMPTY, <<"}">>>>
    /\ objects = <<>>
    /\ stderr = "no objects"
    /\ ~outOpened
    /\ out = OldOutput

====
